---- MODULE Spec2Model ----
(***************************************************************************)
(* Model of the capture/analysis orchestration of src/App.tsx: the React   *)
(* component App (camera session, one-shot motion analysis, live object    *)
(* detection polling) together with the browser resources it drives        *)
(* (media streams, interval and timeout timers, pending promises).         *)
(*                                                                         *)
(* Every event handler runs to its first await in one step; every          *)
(* continuation after an await is a step of its own.  React commits the    *)
(* batched state updates of a handler before the next event is delivered,  *)
(* so a click handler sees the state of the latest render.  A click needs  *)
(* its button rendered and enabled and the page visible; timer callbacks   *)
(* and promise continuations run whether or not the page is visible.       *)
(*                                                                         *)
(* Unmounting the component runs the cleanup of its effect and detaches    *)
(* videoRef and canvasRef.  Continuations still pending then run to their  *)
(* end, but React ignores a state update of an unmounted component.  The   *)
(* state of an unmounted component no longer exists: the model gives its   *)
(* fields their initial values, and videoRef.current.srcObject none.       *)
(***************************************************************************)
EXTENDS Integers, Sequences, FiniteSets

\* ---------------------------------------------------------------- bounds
\* startCamera calls that may await getUserMedia at the same time
MaxPendingStarts == 2
\* media streams whose tracks are running at the same time
MaxStreams == 2
\* detection cycles that may await the backend at the same time
MaxInflight == 2

\* ------------------------------------------------------------- constants
DETECTION_INTERVAL_MS == 3000

\* null of a string-valued state field, and of a ref holding an id
Null == "null"
NoId == 0

CameraError == "Could not access the camera. Please ensure permissions are granted and try again."
AnalysisError == "Analysis failed"

Modes == {"motion", "live"}

\* what the motion endpoint may answer (confidence in percent)
MotionResponses ==
    { [objectName |-> "red ball", movementDescription |-> "rolling right", confidence |-> 92],
      [objectName |-> "person", movementDescription |-> "walking", confidence |-> 50] }

\* what the detection endpoint may answer: result.detections
DetectionResponses == { <<>>, <<"cup">>, <<"cup", "phone">> }

\* response.text as JSON.parse reads it: a body of the expected shape, or one
\* that parses but lacks a required field
MotionBodies ==
    MotionResponses \cup
        { [objectName |-> "red ball", movementDescription |-> "rolling right"] }

DetectionBodies ==
    { [detections |-> ds] : ds \in DetectionResponses } \cup
        { [objects |-> <<"cup">>] }

\* how a call of ai.models.generateContent ends: it throws ("error"), answers
\* text that is no JSON ("garbage"), or answers a JSON body
MotionWire ==
    { [kind |-> "error"], [kind |-> "garbage"] } \cup
        { [kind |-> "json", body |-> b] : b \in MotionBodies }

DetectionWire ==
    { [kind |-> "error"], [kind |-> "garbage"] } \cup
        { [kind |-> "json", body |-> b] : b \in DetectionBodies }

\* the shapes the response schemas require
MotionFields == {"objectName", "movementDescription", "confidence"}
WellFormedMotion(body) == DOMAIN body = MotionFields
WellFormedDetection(body) == "detections" \in DOMAIN body

\* analyzeMotion: JSON.parse(response.text) as AnalysisResult, or a throw
AnalyzeMotion(response) ==
    IF response.kind = "json"
    THEN [ok |-> TRUE, value |-> response.body]
    ELSE [ok |-> FALSE]

\* detectObjectsInFrame: result.detections || [], or a throw
DetectObjectsInFrame(response) ==
    IF response.kind = "json"
    THEN [ok |-> TRUE,
          value |-> IF "detections" \in DOMAIN response.body
                    THEN response.body.detections ELSE <<>>]
    ELSE [ok |-> FALSE]

VARIABLES
    mode,                 \* useState<Mode>
    isCameraOn,           \* useState<boolean>
    isAnalyzing,          \* useState<boolean>
    isDetecting,          \* useState<boolean>
    analysisResult,       \* useState<AnalysisResult | null>: <<>> or <<r>>
    detections,           \* useState<DetectedObject[]>
    transientMessage,     \* useState<string | null>
    error,                \* useState<string | null>
    srcObject,            \* videoRef.current.srcObject: a stream id or NoId
    detectionIntervalRef, \* detectionIntervalRef.current: an interval id or NoId
    transientMessageTimeoutRef, \* transientMessageTimeoutRef.current
    liveStreams,          \* the streams whose tracks have not been stopped
    intervals,            \* the armed setInterval timers: [id, cam]
    timeouts,             \* the pending banner setTimeout timers: ids
    pendingStarts,        \* startCamera calls awaiting getUserMedia
    motionCalls,          \* handleAnalyzeMotion calls suspended at an await
    detectCalls,          \* runLiveDetection calls awaiting the backend
    hidden,               \* document.hidden
    mounted,              \* the component is mounted: videoRef.current is set
    last                  \* history: the step taken last, and what it found

vars == <<mode, isCameraOn, isAnalyzing, isDetecting, analysisResult, detections,
          transientMessage, error, srcObject, detectionIntervalRef,
          transientMessageTimeoutRef, liveStreams, intervals, timeouts,
          pendingStarts, motionCalls, detectCalls, hidden, mounted, last>>

ui == <<mode, isCameraOn, isAnalyzing, isDetecting, analysisResult, detections,
        transientMessage, error>>

\* ---------------------------------------------------------------- helpers
Remove(s, i) == [j \in 1..(Len(s) - 1) |-> IF j < i THEN s[j] ELSE s[j + 1]]

\* the id a browser hands out: one no live object and no ref still holds
FreshId(used) == CHOOSE n \in 1..(Cardinality(used) + 1) : n \notin used

IntervalIds == { iv.id : iv \in intervals }

\* something is on display that clearState would wipe
Dirty == \/ error # Null
         \/ analysisResult # <<>>
         \/ detections # <<>>
         \/ transientMessage # Null

\* the handlers a click of the user runs
UserHandlers ==
    {"startCamera", "stopCamera", "setMode", "handleAnalyzeMotion",
     "toggleLiveDetection"}

\* history of a step: its handler, and what held when it began (dirty and
\* detecting, kept for stopCamera and the mode buttons; timer: a banner timeout
\* was pending, kept for a resolved analysis); flag is the handler's own
\* note (a tick: it launched a cycle; a timeout: it was the one the ref holds;
\* a mode button: the mode changed; a resolved detection: the response had no
\* detections field; an unmount: the camera was on); sinceStop: stopCamera ran
\* and no click followed it; overtook: a detection resolved on the mounted
\* component, camera on and detecting, while a call that had started before
\* it was still awaiting the backend
Step(op) == [op |-> op, dirty |-> FALSE, detecting |-> FALSE, timer |-> FALSE,
             flag |-> FALSE, sinceStop |-> FALSE, overtook |-> FALSE]
StepFrom(op) == [op |-> op,
                 dirty |-> op \in {"stopCamera", "setMode"} /\ Dirty,
                 detecting |-> op \in {"stopCamera", "setMode"} /\ isDetecting,
                 timer |-> op = "motionResolved" /\ timeouts # {},
                 flag |-> FALSE,
                 sinceStop |-> IF op = "stopCamera" THEN TRUE
                               ELSE IF op \in UserHandlers THEN FALSE
                               ELSE last.sinceStop,
                 overtook |-> FALSE]

Init ==
    /\ mode = "motion"
    /\ isCameraOn = FALSE
    /\ isAnalyzing = FALSE
    /\ isDetecting = FALSE
    /\ analysisResult = <<>>
    /\ detections = <<>>
    /\ transientMessage = Null
    /\ error = Null
    /\ srcObject = NoId
    /\ detectionIntervalRef = NoId
    /\ transientMessageTimeoutRef = NoId
    /\ liveStreams = {}
    /\ intervals = {}
    /\ timeouts = {}
    /\ pendingStarts = 0
    /\ motionCalls = <<>>
    /\ detectCalls = <<>>
    /\ hidden = FALSE
    /\ mounted = TRUE
    /\ last = Step("init")

\* a setter of useState called from a continuation: the value the state has
\* afterwards (an update of an unmounted component is ignored)
SetState(cell, value) == IF mounted THEN value ELSE cell

\* --------------------------------------------------------- browser model
\* clearInterval(id) / clearTimeout(id): an id that is not armed is ignored
ClearIntervalKept(id) == intervals
ClearInterval(id) == { iv \in intervals : iv.id # id }

ClearTimeoutKept(id) == timeouts
ClearTimeout(id) == timeouts \ {id}

\* track.stop() on every track of the stream
StopTracksKept(s) == liveStreams
StopTracks(s) == liveStreams \ {s}

\* captureFrame: throws when the refs are detached or the 2D context is
\* missing, else encodes what the video element shows, which is a live picture
\* only while a stream is attached
CaptureFrame(ctx) ==
    IF mounted /\ ctx THEN [ok |-> TRUE, live |-> srcObject # NoId]
                      ELSE [ok |-> FALSE, live |-> FALSE]

\* ------------------------------------------------------------ clearState
ClearStateKeepsDetections ==
    /\ error' = Null
    /\ analysisResult' = <<>>
    /\ detections' = detections
    /\ transientMessage' = Null

ClearState ==
    /\ error' = Null
    /\ analysisResult' = <<>>
    /\ detections' = <<>>
    /\ transientMessage' = Null

\* ------------------------------------------------- what the render offers
StartButtonShown == ~isCameraOn
StopButtonShown == isCameraOn
AnalyzeButtonAlwaysEnabled == isCameraOn /\ mode = "motion"
AnalyzeButtonEnabled == isCameraOn /\ mode = "motion" /\ ~isAnalyzing
ToggleButtonShown == isCameraOn /\ mode = "live"

\* ------------------------------------------------------ session lifecycle
\* startCamera up to its await of getUserMedia
StartCamera ==
    /\ mounted
    /\ ~hidden
    /\ StartButtonShown
    /\ pendingStarts < MaxPendingStarts
    /\ ClearState
    /\ pendingStarts' = pendingStarts + 1
    /\ last' = StepFrom("startCamera")
    /\ UNCHANGED <<mode, isCameraOn, isAnalyzing, isDetecting, srcObject,
                   detectionIntervalRef, transientMessageTimeoutRef, liveStreams,
                   intervals, timeouts, motionCalls, detectCalls, hidden, mounted>>

\* getUserMedia resolved with a new stream
CameraGrantedClearsError ==
    /\ pendingStarts > 0
    /\ Cardinality(liveStreams) < MaxStreams
    /\ LET stream == FreshId(liveStreams \cup {srcObject}) IN
        /\ liveStreams' = liveStreams \cup {stream}
        /\ srcObject' = IF mounted THEN stream ELSE srcObject
    /\ isCameraOn' = SetState(isCameraOn, TRUE)
    /\ error' = SetState(error, Null)
    /\ pendingStarts' = pendingStarts - 1
    /\ last' = StepFrom("cameraGranted")
    /\ UNCHANGED <<mode, isAnalyzing, isDetecting, analysisResult, detections,
                   transientMessage, detectionIntervalRef,
                   transientMessageTimeoutRef, intervals, timeouts, motionCalls,
                   detectCalls, hidden, mounted>>

CameraGranted ==
    /\ pendingStarts > 0
    /\ Cardinality(liveStreams) < MaxStreams
    /\ LET stream == FreshId(liveStreams \cup {srcObject}) IN
        /\ liveStreams' = liveStreams \cup {stream}
        /\ srcObject' = IF mounted THEN stream ELSE srcObject
    /\ isCameraOn' = SetState(isCameraOn, TRUE)
    /\ pendingStarts' = pendingStarts - 1
    /\ last' = StepFrom("cameraGranted")
    /\ UNCHANGED <<mode, isAnalyzing, isDetecting, analysisResult, detections,
                   transientMessage, error, detectionIntervalRef,
                   transientMessageTimeoutRef, intervals, timeouts, motionCalls,
                   detectCalls, hidden, mounted>>

\* getUserMedia rejected
CameraDenied ==
    /\ pendingStarts > 0
    /\ error' = SetState(error, CameraError)
    /\ isCameraOn' = SetState(isCameraOn, FALSE)
    /\ pendingStarts' = pendingStarts - 1
    /\ last' = StepFrom("cameraDenied")
    /\ UNCHANGED <<mode, isAnalyzing, isDetecting, analysisResult, detections,
                   transientMessage, srcObject, detectionIntervalRef,
                   transientMessageTimeoutRef, liveStreams, intervals, timeouts,
                   motionCalls, detectCalls, hidden, mounted>>

StopCamera ==
    /\ mounted
    /\ ~hidden
    /\ StopButtonShown
    /\ intervals' = IF detectionIntervalRef # NoId
                    THEN ClearInterval(detectionIntervalRef) ELSE intervals
    /\ detectionIntervalRef' = NoId
    /\ isDetecting' = FALSE
    /\ liveStreams' = IF srcObject # NoId THEN StopTracks(srcObject) ELSE liveStreams
    /\ srcObject' = NoId
    /\ isCameraOn' = FALSE
    /\ ClearState
    /\ last' = StepFrom("stopCamera")
    /\ UNCHANGED <<mode, isAnalyzing, transientMessageTimeoutRef, timeouts,
                   pendingStarts, motionCalls, detectCalls, hidden, mounted>>

\* the two mode buttons: setMode(m); clearState()
SetMode(m) ==
    /\ mounted
    /\ ~hidden
    /\ mode' = m
    /\ ClearState
    /\ last' = [StepFrom("setMode") EXCEPT !.flag = (m # mode)]
    /\ UNCHANGED <<isCameraOn, isAnalyzing, isDetecting, srcObject,
                   detectionIntervalRef, transientMessageTimeoutRef, liveStreams,
                   intervals, timeouts, pendingStarts, motionCalls, detectCalls,
                   hidden, mounted>>

VisibilityChange ==
    /\ hidden' = ~hidden
    /\ last' = [Step("visibility") EXCEPT !.sinceStop = last.sinceStop]
    /\ UNCHANGED <<ui, srcObject, detectionIntervalRef, transientMessageTimeoutRef,
                   liveStreams, intervals, timeouts, pendingStarts, motionCalls,
                   detectCalls, mounted>>

\* the cleanup of the effect, run when the component unmounts
Unmount ==
    /\ mounted
    /\ mounted' = FALSE
    /\ intervals' = IF detectionIntervalRef # NoId
                    THEN ClearInterval(detectionIntervalRef) ELSE intervals
    /\ timeouts' = IF transientMessageTimeoutRef # NoId
                   THEN ClearTimeout(transientMessageTimeoutRef) ELSE timeouts
    /\ mode' = "motion"
    /\ isCameraOn' = FALSE
    /\ isAnalyzing' = FALSE
    /\ isDetecting' = FALSE
    /\ analysisResult' = <<>>
    /\ detections' = <<>>
    /\ transientMessage' = Null
    /\ error' = Null
    /\ srcObject' = NoId
    /\ last' = [Step("unmount") EXCEPT !.flag = isCameraOn]
    /\ UNCHANGED <<detectionIntervalRef, transientMessageTimeoutRef, liveStreams,
                   pendingStarts, motionCalls, detectCalls, hidden>>

\* --------------------------------------------------- one-shot motion mode
\* handleAnalyzeMotion up to its await of the 500 ms delay.  A throw of the
\* first captureFrame runs catch and finally in the same step.
HandleAnalyzeMotion(ctx) ==
    /\ mounted
    /\ ~hidden
    /\ AnalyzeButtonEnabled
    /\ isCameraOn
    /\ LET frame1 == CaptureFrame(ctx) IN
        IF frame1.ok
        THEN /\ ClearState
             /\ isAnalyzing' = TRUE
             /\ motionCalls' = Append(motionCalls,
                    [stage |-> "delay", frame1 |-> frame1.live, frame2 |-> FALSE])
        ELSE /\ error' = AnalysisError
             /\ analysisResult' = <<>>
             /\ detections' = <<>>
             /\ transientMessage' = Null
             /\ isAnalyzing' = FALSE
             /\ motionCalls' = motionCalls
    /\ last' = StepFrom("handleAnalyzeMotion")
    /\ UNCHANGED <<mode, isCameraOn, isDetecting, srcObject, detectionIntervalRef,
                   transientMessageTimeoutRef, liveStreams, intervals, timeouts,
                   pendingStarts, detectCalls, hidden, mounted>>

\* catch and finally of handleAnalyzeMotion, for the call at position i
MotionFailedKeepsAnalyzing(i) ==
    /\ error' = SetState(error, AnalysisError)
    /\ isAnalyzing' = isAnalyzing
    /\ motionCalls' = Remove(motionCalls, i)
    /\ UNCHANGED <<analysisResult, transientMessage, transientMessageTimeoutRef,
                   timeouts>>

MotionFailed(i) ==
    /\ error' = SetState(error, AnalysisError)
    /\ isAnalyzing' = SetState(isAnalyzing, FALSE)
    /\ motionCalls' = Remove(motionCalls, i)
    /\ UNCHANGED <<analysisResult, transientMessage, transientMessageTimeoutRef,
                   timeouts>>

\* the delay elapsed: the second captureFrame, then the call of analyzeMotion
MotionDelayElapsed(i, ctx) ==
    /\ motionCalls[i].stage = "delay"
    /\ LET frame2 == CaptureFrame(ctx) IN
        IF frame2.ok
        THEN /\ motionCalls' = [motionCalls EXCEPT ![i].stage = "request",
                                                   ![i].frame2 = frame2.live]
             /\ UNCHANGED <<error, isAnalyzing, analysisResult, transientMessage,
                            transientMessageTimeoutRef, timeouts>>
        ELSE MotionFailed(i)
    /\ last' = StepFrom("motionDelayElapsed")
    /\ UNCHANGED <<mode, isCameraOn, isDetecting, detections, srcObject,
                   detectionIntervalRef, liveStreams, intervals, pendingStarts,
                   detectCalls, hidden, mounted>>

\* analyzeMotion resolved with result
MotionResolved(i, result) ==
    /\ motionCalls[i].stage = "request"
    /\ analysisResult' = SetState(analysisResult, <<result>>)
    /\ transientMessage' = SetState(transientMessage, result.movementDescription)
    /\ LET kept == IF transientMessageTimeoutRef # NoId
                   THEN ClearTimeout(transientMessageTimeoutRef) ELSE timeouts
           timer == FreshId(timeouts \cup {transientMessageTimeoutRef})
       IN /\ timeouts' = kept \cup {timer}
          /\ transientMessageTimeoutRef' = timer
    /\ isAnalyzing' = SetState(isAnalyzing, FALSE)
    /\ motionCalls' = Remove(motionCalls, i)
    /\ last' = StepFrom("motionResolved")
    /\ UNCHANGED <<mode, isCameraOn, isDetecting, detections, error, srcObject,
                   detectionIntervalRef, liveStreams, intervals, pendingStarts,
                   detectCalls, hidden, mounted>>

\* analyzeMotion threw
MotionRejected(i) ==
    /\ motionCalls[i].stage = "request"
    /\ MotionFailed(i)
    /\ last' = StepFrom("motionRejected")
    /\ UNCHANGED <<mode, isCameraOn, isDetecting, detections, srcObject,
                   detectionIntervalRef, liveStreams, intervals, pendingStarts,
                   detectCalls, hidden, mounted>>

\* the callback of the banner's setTimeout
TransientTimeout(timer) ==
    /\ timer \in timeouts
    /\ timeouts' = timeouts \ {timer}
    /\ transientMessage' = SetState(transientMessage, Null)
    /\ last' = [StepFrom("transientTimeout") EXCEPT
                    !.flag = (timer = transientMessageTimeoutRef)]
    /\ UNCHANGED <<mode, isCameraOn, isAnalyzing, isDetecting, analysisResult,
                   detections, error, srcObject, detectionIntervalRef,
                   transientMessageTimeoutRef, liveStreams, intervals,
                   pendingStarts, motionCalls, detectCalls, hidden, mounted>>

\* --------------------------------------------------------- live detection
\* runLiveDetection up to its await of detectObjectsInFrame, as the calls in
\* flight after it.  cam is the isCameraOn its closure captured.
RunLiveDetection(cam, ctx) ==
    IF ~cam \/ hidden
    THEN detectCalls
    ELSE LET frame == CaptureFrame(ctx) IN
         IF frame.ok THEN Append(detectCalls, [frame |-> frame.live])
                     ELSE detectCalls

ToggleLiveDetection(ctx) ==
    /\ mounted
    /\ ~hidden
    /\ ToggleButtonShown
    /\ IF isDetecting
       THEN /\ intervals' = IF detectionIntervalRef # NoId
                            THEN ClearInterval(detectionIntervalRef) ELSE intervals
            /\ detectionIntervalRef' = NoId
            /\ isDetecting' = FALSE
            /\ detections' = <<>>
            /\ UNCHANGED <<error, analysisResult, transientMessage, detectCalls>>
       ELSE /\ Len(detectCalls) < MaxInflight
            /\ ClearState
            /\ isDetecting' = TRUE
            /\ detectCalls' = RunLiveDetection(isCameraOn, ctx)
            /\ LET id == FreshId(IntervalIds \cup {detectionIntervalRef}) IN
                /\ intervals' = intervals \cup
                      {[id |-> id, cam |-> isCameraOn, ms |-> DETECTION_INTERVAL_MS]}
                /\ detectionIntervalRef' = id
    /\ last' = StepFrom("toggleLiveDetection")
    /\ UNCHANGED <<mode, isCameraOn, isAnalyzing, srcObject,
                   transientMessageTimeoutRef, liveStreams, timeouts, pendingStarts,
                   motionCalls, hidden, mounted>>

\* a tick of an armed interval: runLiveDetection of the render that armed it
IntervalTick(iv, ctx) ==
    /\ iv \in intervals
    /\ Len(detectCalls) < MaxInflight
    /\ detectCalls' = RunLiveDetection(iv.cam, ctx)
    /\ last' = [StepFrom("intervalTick") EXCEPT
                    !.flag = (detectCalls' # detectCalls)]
    /\ UNCHANGED <<ui, srcObject, detectionIntervalRef, transientMessageTimeoutRef,
                   liveStreams, intervals, timeouts, pendingStarts, motionCalls,
                   hidden, mounted>>

\* detectObjectsInFrame resolved with its results for response
DetectResolved(i, response) ==
    /\ i \in 1..Len(detectCalls)
    /\ DetectObjectsInFrame(response).ok
    /\ detections' = SetState(detections, DetectObjectsInFrame(response).value)
    /\ error' = SetState(error, Null)
    /\ detectCalls' = Remove(detectCalls, i)
    /\ last' = [StepFrom("detectResolved") EXCEPT
                    !.flag = ~WellFormedDetection(response.body),
                    !.overtook = (i > 1 /\ mounted /\ isCameraOn /\ isDetecting)]
    /\ UNCHANGED <<mode, isCameraOn, isAnalyzing, isDetecting, analysisResult,
                   transientMessage, srcObject, detectionIntervalRef,
                   transientMessageTimeoutRef, liveStreams, intervals, timeouts,
                   pendingStarts, motionCalls, hidden, mounted>>

\* detectObjectsInFrame threw: the catch only logs
DetectRejectedClears(i) ==
    /\ i \in 1..Len(detectCalls)
    /\ detectCalls' = Remove(detectCalls, i)
    /\ detections' = SetState(detections, <<>>)
    /\ last' = StepFrom("detectRejected")
    /\ UNCHANGED <<mode, isCameraOn, isAnalyzing, isDetecting, analysisResult,
                   transientMessage, error, srcObject, detectionIntervalRef,
                   transientMessageTimeoutRef, liveStreams, intervals, timeouts,
                   pendingStarts, motionCalls, hidden, mounted>>

DetectRejectedClearsError(i) ==
    /\ i \in 1..Len(detectCalls)
    /\ detectCalls' = Remove(detectCalls, i)
    /\ error' = SetState(error, Null)
    /\ last' = StepFrom("detectRejected")
    /\ UNCHANGED <<mode, isCameraOn, isAnalyzing, isDetecting, analysisResult,
                   detections, transientMessage, srcObject, detectionIntervalRef,
                   transientMessageTimeoutRef, liveStreams, intervals, timeouts,
                   pendingStarts, motionCalls, hidden, mounted>>

DetectRejected(i) ==
    /\ i \in 1..Len(detectCalls)
    /\ detectCalls' = Remove(detectCalls, i)
    /\ last' = StepFrom("detectRejected")
    /\ UNCHANGED <<ui, srcObject, detectionIntervalRef, transientMessageTimeoutRef,
                   liveStreams, intervals, timeouts, pendingStarts, motionCalls,
                   hidden, mounted>>

\* ------------------------------------------------------------------ steps
MotionDelayStep == \E i \in 1..Len(motionCalls), ctx \in BOOLEAN : MotionDelayElapsed(i, ctx)
MotionResolvedStep ==
    \E i \in 1..Len(motionCalls), w \in MotionWire :
        AnalyzeMotion(w).ok /\ MotionResolved(i, AnalyzeMotion(w).value)
MotionRejectedStep ==
    \E i \in 1..Len(motionCalls), w \in MotionWire :
        ~AnalyzeMotion(w).ok /\ MotionRejected(i)
MotionSettledStep == MotionResolvedStep \/ MotionRejectedStep
DetectResolvedStep ==
    \E i \in 1..Len(detectCalls), w \in DetectionWire : DetectResolved(i, w)
DetectRejectedStep ==
    \E i \in 1..Len(detectCalls), w \in DetectionWire :
        ~DetectObjectsInFrame(w).ok /\ DetectRejected(i)
TransientTimeoutStep == \E t \in timeouts : TransientTimeout(t)

Next ==
    \/ StartCamera
    \/ CameraGranted
    \/ CameraDenied
    \/ StopCamera
    \/ \E m \in Modes : SetMode(m)
    \/ VisibilityChange
    \/ Unmount
    \/ \E ctx \in BOOLEAN : HandleAnalyzeMotion(ctx)
    \/ MotionDelayStep
    \/ MotionResolvedStep
    \/ MotionRejectedStep
    \/ TransientTimeoutStep
    \/ \E ctx \in BOOLEAN : ToggleLiveDetection(ctx)
    \/ \E iv \in intervals, ctx \in BOOLEAN : IntervalTick(iv, ctx)
    \/ DetectResolvedStep
    \/ DetectRejectedStep

Spec == Init /\ [][Next]_vars

\* The event loop runs every timer callback and promise continuation that is
\* due: the 500 ms delay elapses, and the backend call returns or fails.
LiveSpec == Spec /\ WF_vars(MotionDelayStep) /\ WF_vars(MotionSettledStep)

\* ================================================================ claims

\* C1: in every reachable state the flags analyzing and detecting are never
\* both true.
C1_NeverAnalyzingAndDetecting == ~(isAnalyzing /\ isDetecting)

\* C2: after stopSession no timer callback can fire: the polling timer and any
\* pending 5000 ms transient-message timer are disarmed.
C2_StopDisarmsEveryTimer ==
    last.op = "stopCamera" => intervals = {} /\ timeouts = {}

\* C3: a mode switch (motion<->live) performed while detecting=true disarms
\* the polling timer, so the timer launches no further detection cycle.
C3_ModeSwitchDisarmsPolling ==
    (last.op = "setMode" /\ last.flag /\ last.detecting) => intervals = {}

\* C4: at most one CameraSession is active (acquired and not yet released) at
\* any time.
C4_AtMostOneCameraSession == Cardinality(liveStreams) <= 1

C6_SingleMotionCallInFlight ==
    /\ Len(motionCalls) <= 1
    /\ (mounted /\ motionCalls # <<>>) => isAnalyzing
    /\ isAnalyzing => ~ENABLED (\E ctx \in BOOLEAN : HandleAnalyzeMotion(ctx))

C6_Witness ==
    /\ isAnalyzing
    /\ isCameraOn
    /\ mode = "motion"
    /\ ~hidden
    /\ Len(motionCalls) = 1
    /\ motionCalls[1].stage = "request"

\* C7: a detection cycle that fails with a backend error leaves lastDetections
\* and lastError exactly as they were, and the polling timer armed.
C7_DetectionFailureIsSilent ==
    [][DetectRejectedStep =>
        /\ detections' = detections
        /\ error' = error
        /\ intervals' = intervals
        /\ detectionIntervalRef' = detectionIntervalRef]_vars

C7_Witness ==
    /\ last.op = "detectRejected"
    /\ Len(detections) = 2
    /\ error = Null
    /\ isDetecting
    /\ intervals # {}

\* C8: switching mode while a session is active sets the new mode and, in the
\* same step, leaves lastResult absent, lastDetections empty, lastError absent.
C8_ModeSwitchClears ==
    [][\A m \in Modes :
        (SetMode(m) /\ isCameraOn) =>
            /\ mode' = m
            /\ analysisResult' = <<>>
            /\ detections' = <<>>
            /\ error' = Null]_vars

C8_Witness ==
    /\ last.op = "setMode"
    /\ last.flag
    /\ last.dirty
    /\ isCameraOn
    /\ mode = "live"

\* C9: every analyzeMotionOnce that sets analyzing=true eventually sets
\* analyzing=false, whether capture and backend request succeed or fail (for
\* as long as the component, and so the flag, exists).
C9_AnalyzingIsReleased == (mounted /\ isAnalyzing) ~> (~isAnalyzing \/ ~mounted)

C9_Witness ==
    /\ last.op = "motionRejected"
    /\ ~isAnalyzing
    /\ error = AnalysisError

\* C10: at most one banner self-clear timer is pending at any time, and a shown
\* banner is cleared only by the timer armed with it or by a handler that
\* clears the state, never by a timer an earlier analysis armed.
BannerClearingHandlers ==
    {"startCamera", "stopCamera", "setMode", "handleAnalyzeMotion",
     "toggleLiveDetection"}

C10_BannerTimersDoNotStack ==
    [][/\ Cardinality(timeouts') <= 1
       /\ \A t \in timeouts :
            (TransientTimeout(t) /\ transientMessage # Null)
                => t = transientMessageTimeoutRef
       /\ (mounted' /\ transientMessage # Null /\ transientMessage' = Null)
            => \/ last'.op \in BannerClearingHandlers
               \/ last'.op = "transientTimeout" /\ last'.flag]_vars

C10_Witness ==
    /\ last.op = "motionResolved"
    /\ last.timer
    /\ Cardinality(timeouts) = 1
    /\ transientMessage # Null

\* C11 (as stated): while the session stays active, an error stored by a
\* failed motion analysis remains set until the next successful motion analysis
\* or a mode switch; no other event clears it.
C11_AnalysisErrorUntilSuccessOrSwitch ==
    [][(isCameraOn /\ isCameraOn' /\ error = AnalysisError /\ error' # AnalysisError)
        => last'.op \in {"motionResolved", "setMode"}]_vars

\* C11 (amended): while the session stays active, an error stored by a failed
\* motion analysis remains set until the next motion analysis is started, a
\* mode button is clicked, live detection is toggled on or a detection cycle
\* succeeds; no other event clears it.
C11_AnalysisErrorPersists ==
    [][(isCameraOn /\ isCameraOn' /\ error = AnalysisError /\ error' # AnalysisError)
        => \/ last'.op \in {"handleAnalyzeMotion", "setMode", "detectResolved"}
           \/ last'.op = "toggleLiveDetection" /\ ~isDetecting /\ isDetecting']_vars

C11_Witness ==
    /\ last.op = "detectRejected"
    /\ error = AnalysisError
    /\ isCameraOn
    /\ mounted

C13_MalformedResponseRejected ==
    /\ analysisResult # <<>> => WellFormedMotion(analysisResult[1])
    /\ ~(last.op = "detectResolved" /\ last.flag)

\* C14: startSession ends on a grant with sessionActive=true and result,
\* detections, error and banner all cleared, and on a denial with lastError
\* set and sessionActive=false.
C14_StartSessionOutcomes ==
    mounted =>
        /\ last.op = "cameraGranted" => (isCameraOn /\ ~Dirty)
        /\ last.op = "cameraDenied" => (error # Null /\ ~isCameraOn)

\* C15: after a component teardown with an active session no CameraSession
\* remains active.
C15_TeardownReleasesSession ==
    last.op = "unmount" => liveStreams = {}

\* C16: no frame is produced, and no backend request is sent, from a capture
\* taken while no CameraSession is active.
C16_NoCaptureWithoutSession ==
    /\ \A i \in 1..Len(motionCalls) :
        /\ motionCalls[i].frame1
        /\ motionCalls[i].stage = "request" => motionCalls[i].frame2
    /\ \A i \in 1..Len(detectCalls) : detectCalls[i].frame

\* C17: once stopSession has run, lastResult, lastDetections, lastError and the
\* banner stay empty until the next user action, also when a motion analysis
\* or a detection cycle that was in flight completes.
AnalysisCompletions ==
    {"motionDelayElapsed", "motionResolved", "motionRejected", "detectResolved",
     "detectRejected"}

C17_NothingAfterStop ==
    (last.sinceStop /\ last.op \in AnalysisCompletions) => ~Dirty

\* C18: toggleLiveDetection from detecting to idle disarms the timer, sets
\* detecting=false and empties the DetectionSet, and the DetectionSet then
\* stays empty while detecting=false (and the session stays active).
C18_OverlayGoneWhileIdle ==
    [][/\ \A ctx \in BOOLEAN :
            (ToggleLiveDetection(ctx) /\ isDetecting)
                => (intervals' = {} /\ ~isDetecting' /\ detections' = <<>>)
       /\ (isCameraOn /\ isCameraOn' /\ ~isDetecting /\ ~isDetecting'
                /\ detections = <<>>)
            => detections' = <<>>]_vars

\* C19: toggleLiveDetection from idle to detecting sets detecting=true, clears
\* prior detections and errors, runs one detection cycle at once (one request
\* in flight more, unless its capture throws) and arms the repeating timer;
\* while the component is mounted the timer is armed exactly when
\* detecting=true.
C19_ToggleOnArmsTimer ==
    [][/\ \A ctx \in BOOLEAN :
            (ToggleLiveDetection(ctx) /\ ~isDetecting) =>
                /\ isDetecting'
                /\ detections' = <<>>
                /\ error' = Null
                /\ Len(detectCalls') = Len(detectCalls) + (IF ctx THEN 1 ELSE 0)
                /\ Cardinality(intervals') = 1
                /\ detectionIntervalRef' \in { iv.id : iv \in intervals' }
                /\ \A iv \in intervals' : iv.ms = DETECTION_INTERVAL_MS
       /\ mounted' => (isDetecting' <=> intervals' # {})]_vars

C19_Witness ==
    /\ last.op = "toggleLiveDetection"
    /\ isDetecting
    /\ Len(detectCalls) = 1
    /\ Cardinality(intervals) = 1

\* C20: a detection cycle that starts while the session is not active or the
\* page is hidden captures no frame, sends no request and changes no state,
\* and the timer stays armed.
C20_InactiveOrHiddenTickSkipped ==
    [][\A iv \in intervals, ctx \in BOOLEAN :
        (IntervalTick(iv, ctx) /\ (~isCameraOn \/ hidden))
            => (detectCalls' = detectCalls /\ UNCHANGED ui /\ intervals' = intervals)]_vars

\* C21: when detection cycles overlap, a late response of an older cycle never
\* overwrites the result of a newer one: once the response of a cycle has been
\* applied while a cycle started before it still awaits the backend, the
\* response of that older cycle leaves the displayed DetectionSet as it is.
C21_LateResponseNeverOverwrites ==
    [][\A w \in DetectionWire :
        (/\ last.op = "detectResolved"
         /\ last.overtook
         /\ ~last.flag
         /\ mounted /\ isCameraOn /\ isDetecting
         /\ DetectResolved(1, w)
         /\ WellFormedDetection(w.body))
            => detections' = detections]_vars

====
